---------------------------- MODULE Spec2Model ----------------------------
(***************************************************************************)
(* Model of the protocol-metadata tooling in src/scripts:                  *)
(*   validate_protocol.py        (schema check, canonical overlap,         *)
(*                                duplicate labels, link probe, main)      *)
(*   ProtocolsTable.py           (CSV export)                              *)
(*   check_verified_contracts.py (contract verification probe)             *)
(*                                                                         *)
(* Python strings whose characters matter (lower(), split(), startswith(), *)
(* ordering) are sequences of one-character strings.  A Python dict is a   *)
(* sequence of <<key, value>> pairs with distinct keys, in insertion order.*)
(***************************************************************************)
EXTENDS Integers, Sequences, FiniteSets, TLC

VARIABLES
    isdir,          \* os.path.isdir(base_dir)
    dir,            \* base_dir: file name -> file content (read-only input)
    listdir,        \* os.listdir(base_dir), in the order the system gives it
    args,           \* parsed command line of validate_protocol.main
    json_files,     \* the list of files handed to the checks
    pc,             \* position of the running function
    fi,             \* index of the next file in the running loop
    li,             \* index of the next link of the file (check_invalid_links)
    canonical_contract_addresses,
    address_labels, \* the index of check_duplicated_address_labels
    invalid,        \* main's list of invalid files
    has_included_canonical_contracts,
    has_duplicated_address_labels,
    has_invalid_links,
    status_code,    \* check_invalid_links' local, "unbound" until first assigned
    exit,           \* how main ended ("running" until then)
    stdout,         \* the lines printed so far
    rows,           \* ProtocolsTable: what parse_protocol_file returned last
    all_rows,       \* ProtocolsTable: main's all_rows
    csv,            \* ProtocolsTable: the rows written to the CSV file
    vargs,          \* check_verified_contracts: api key, files and --parallel
    files,          \* check_verified_contracts: the files submitted
    future,         \* check_verified_contracts: each submitted task's future
    yielded,        \* check_verified_contracts: the futures as_completed gave
    results,        \* check_verified_contracts: main's results list
    report          \* check_verified_contracts: what print_results was given

inputVars == <<isdir, dir, listdir, args>>
canonVars == <<canonical_contract_addresses, has_included_canonical_contracts>>
dupVars == <<address_labels, has_duplicated_address_labels>>
linkVars == <<li, has_invalid_links, status_code>>
mainVars == <<json_files, invalid, exit>>
exportVars == <<rows, all_rows, csv>>
verifyVars == <<vargs, files, future, yielded, results, report>>

vars == <<inputVars, canonVars, dupVars, linkVars, mainVars, exportVars, verifyVars,
          pc, fi, stdout>>

(***************************************************************************)
(* Bounds                                                                  *)
(***************************************************************************)
\* number of protocol files in the directory
NFiles == 2

(***************************************************************************)
(* Strings                                                                 *)
(***************************************************************************)
\* The characters in use, in code point order.
Chars == <<".", "/", "0", "1", "2", "3", "4", "5", "6", "7", "8", "9", ":", ";",
           "A", "B", "C", "D", "E", "F", "G", "H", "I", "J", "K", "L", "M",
           "N", "O", "P", "Q", "R", "S", "T", "U", "V", "W", "X", "Y", "Z",
           "a", "b", "c", "d", "e", "f", "g", "h", "i", "j", "k", "l", "m",
           "n", "o", "p", "q", "r", "s", "t", "u", "v", "w", "x", "y", "z">>

\* The position of each character in code point order.
OrdOf == [c \in {Chars[i] : i \in 1..Len(Chars)} |->
             CHOOSE i \in 1..Len(Chars) : Chars[i] = c]

Ord(c) == OrdOf[c]

IsUpper(c) == Ord(c) >= Ord("A") /\ Ord(c) <= Ord("Z")

\* str.lower() on each character in use
LowerOf == [c \in DOMAIN OrdOf |-> IF IsUpper(c) THEN Chars[Ord(c) + 26] ELSE c]

LowerChar(c) == LowerOf[c]

\* str.lower()
Lower(s) == [i \in 1..Len(s) |-> LowerChar(s[i])]

\* s.startswith(p)
StartsWith(s, p) == Len(s) >= Len(p) /\ SubSeq(s, 1, Len(p)) = p

\* s.endswith(p)
EndsWith(s, p) == Len(s) >= Len(p) /\ SubSeq(s, Len(s) - Len(p) + 1, Len(s)) = p

\* Python's < on str: lexicographic by code point
StrLess(s, t) ==
    \E k \in 1..(Len(t)) :
        /\ \A j \in 1..(k - 1) : j <= Len(s) /\ s[j] = t[j]
        /\ \/ k = Len(s) + 1
           \/ k <= Len(s) /\ Ord(s[k]) < Ord(t[k])

Range(s) == {s[i] : i \in DOMAIN s}

(***************************************************************************)
(* Addresses                                                               *)
(***************************************************************************)
HexDigits == {"0", "1", "2", "3", "4", "5", "6", "7", "8", "9",
              "A", "B", "C", "D", "E", "F", "a", "b", "c", "d", "e", "f"}

\* is_valid_address: "0x" + 40 hex digits
AddressLength == 42

is_valid_address(address) ==
    /\ StartsWith(address, <<"0", "x">>)
    /\ Len(address) = AddressLength
    /\ \A i \in 3..Len(address) : address[i] \in HexDigits

\* 0xcccc...cccc
Addr(c) == <<"0", "x">> \o [i \in 1..40 |-> c]

\* Two spellings of one address, and a second address.
Addresses == {Addr("A"), Addr("a"), Addr("b")}

Vault == <<"V", "a", "u", "l", "t">>
Treasury == <<"T", "r", "e", "a", "s", "u", "r", "y">>
Labels == {Vault, Treasury}

\* The dicts {label: address} over the given labels and addresses, in every
\* key order.
AddressMaps(ls, as) ==
    LET orders == UNION {{s \in [1..n -> ls] :
                             \A i, j \in 1..n : i # j => s[i] # s[j]} :
                         n \in 0..Cardinality(ls)}
    IN  UNION {{[i \in DOMAIN o |-> <<o[i], a[i]>>] : a \in [DOMAIN o -> as]} :
               o \in orders}


(***************************************************************************)
(* Files                                                                   *)
(***************************************************************************)
CANONICAL_JSONC == <<"C", "A", "N", "O", "N", "I", "C", "A", "L", ".",
                     "j", "s", "o", "n", "c">>
README_MD == <<"R", "E", "A", "D", "M", "E", ".", "m", "d">>
DOT_JSON == <<".", "j", "s", "o", "n">>
DOT_JSONC == <<".", "j", "s", "o", "n", "c">>

\* Names of protocol files, in sorted order.
NamePool == <<<<"a">> \o DOT_JSON, <<"b">> \o DOT_JSONC,
              <<"c">> \o DOT_JSON, <<"d">> \o DOT_JSON>>

ProtocolNames == {NamePool[i] : i \in 1..NFiles}

REQUIRED_FIELDS == <<"name", "description", "links", "categories">>

DeFi_Lending == <<"D", "e", "F", "i", ":", ":",
                  "L", "e", "n", "d", "i", "n", "g">>
DeFi_Yield == <<"D", "e", "F", "i", ":", ":", "Y", "i", "e", "l", "d">>

\* categories.json["categories"], the allowed categories
CATEGORIES == {DeFi_Lending, DeFi_Yield}

\* A file that json5 parses to a dict with the given top-level keys.
JsonFile(keys, name, categories, addresses, links) ==
    [parses |-> TRUE, keys |-> keys, name |-> name, categories |-> categories,
     addresses |-> addresses, links |-> links]

\* A file json5.load raises on.
Unparseable == [parses |-> FALSE, keys |-> {}, name |-> <<>>,
                categories |-> <<>>, addresses |-> <<>>, links |-> <<>>]

AllKeys == Range(REQUIRED_FIELDS) \cup {"addresses"}

Foo == <<"F", "o", "o">>

\* A record that passes the schema check, with the given address map.
ValidRecord(addresses) ==
    JsonFile(AllKeys, Foo, <<DeFi_Lending>>, addresses, <<>>)

\* data.get(key, default) of a parsed file
Get(data, key, value, default) == IF key \in data.keys THEN value ELSE default

\* sorted(S) for a set of strings
RECURSIVE Sorted(_)
Sorted(S) ==
    IF S = {} THEN <<>>
    ELSE LET m == CHOOSE x \in S : \A y \in S \ {x} : StrLess(x, y)
         IN  <<m>> \o Sorted(S \ {m})

\* [f for f in sorted(os.listdir(base_dir)) if f.endswith(".json") or f.endswith(".jsonc")]
JsonFilesOf(listing) ==
    SelectSeq(Sorted(Range(listing)),
              LAMBDA f : EndsWith(f, DOT_JSON) \/ EndsWith(f, DOT_JSONC))

(***************************************************************************)
(* is_valid_file                                                           *)
(***************************************************************************)
is_valid_file(data) ==
    IF ~data.parses THEN FALSE
    ELSE LET missing == SelectSeq(REQUIRED_FIELDS, LAMBDA field : field \notin data.keys)
             categories == Get(data, "categories", data.categories, <<>>)
             invalid_categories == SelectSeq(categories, LAMBDA c : c \notin CATEGORIES)
             address_map == Get(data, "addresses", data.addresses, <<>>)
         IN  /\ missing = <<>>
             /\ categories # <<>>
             /\ invalid_categories = <<>>
             /\ \A i \in DOMAIN address_map : is_valid_address(address_map[i][2])

(***************************************************************************)
(* check_duplicated_address_labels                                         *)
(***************************************************************************)
\* Mutant of DictAppend: a new key goes to the front of the dict.
DictAppend_Prepend(d, key, value) ==
    IF \E i \in DOMAIN d : d[i][1] = key
    THEN LET i == CHOOSE k \in DOMAIN d : d[k][1] = key
         IN  [d EXCEPT ![i] = <<key, Append(d[i][2], value)>>]
    ELSE <<<<key, <<value>>>>>> \o d

\* Mutant of DictAppend: the entry is assigned, address_labels[key] = [value].
DictAppend_Overwrite(d, key, value) ==
    IF \E i \in DOMAIN d : d[i][1] = key
    THEN LET i == CHOOSE k \in DOMAIN d : d[k][1] = key
         IN  [d EXCEPT ![i] = <<key, <<value>>>>]
    ELSE Append(d, <<key, <<value>>>>)

\* address_labels[key].append(value) on a defaultdict(lambda: [])
DictAppend(d, key, value) ==
    IF \E i \in DOMAIN d : d[i][1] = key
    THEN LET i == CHOOSE k \in DOMAIN d : d[k][1] = key
         IN  [d EXCEPT ![i] = <<key, Append(d[i][2], value)>>]
    ELSE Append(d, <<key, <<value>>>>)

\* Mutant of IndexKey: the address is indexed as written.
IndexKey_AsWritten(address) == address

\* address.lower(), the key of the index
IndexKey(address) == Lower(address)

\* Mutant of IndexItems: label and address swapped, the index is keyed by label.
RECURSIVE IndexItems_KeyedByLabel(_, _, _)
IndexItems_KeyedByLabel(d, json_file, items) ==
    IF items = <<>> THEN d
    ELSE IndexItems_KeyedByLabel(DictAppend(d, Head(items)[1],
                                            <<json_file, IndexKey(Head(items)[2])>>),
                                 json_file, Tail(items))

\* for address_label, address in data['addresses'].items(): append
RECURSIVE IndexItems(_, _, _)
IndexItems(d, json_file, items) ==
    IF items = <<>> THEN d
    ELSE IndexItems(DictAppend(d, IndexKey(Head(items)[2]),
                               <<json_file, Head(items)[1]>>),
                    json_file, Tail(items))

\* {address_label for json_file, address_label in labels}
DistinctLabels(labels) == {labels[i][2] : i \in DOMAIN labels}

\* The lines printed by the report loop, one per address with >= 2 distinct labels.
DuplicateLines(d) ==
    LET multiple_address_labels == SelectSeq(d, LAMBDA e : Len(e[2]) > 1)
        flagged == SelectSeq(multiple_address_labels,
                             LAMBDA e : Cardinality(DistinctLabels(e[2])) >= 2)
    IN  [i \in DOMAIN flagged |->
            [msg |-> "duplicate", address |-> flagged[i][1], labels |-> flagged[i][2]]]

\* One turn of the loop over json_files: load the file, index its addresses.
IndexFile ==
    /\ pc = "dup_build"
    /\ fi <= Len(json_files)
    /\ LET json_file == json_files[fi]
           data == dir[json_file]
       IN  IF data.parses /\ "addresses" \in data.keys
           THEN /\ address_labels' = IndexItems(address_labels, json_file, data.addresses)
                /\ fi' = fi + 1
                /\ pc' = pc
           ELSE \* json5.load raises, or data['addresses'] raises KeyError
                /\ pc' = "dup_raised"
                /\ UNCHANGED <<address_labels, fi>>
    /\ UNCHANGED <<exportVars, verifyVars>>
    /\ UNCHANGED <<inputVars, canonVars, linkVars, mainVars,
                   has_duplicated_address_labels, stdout>>

\* The report loop and the return.
ReportDuplicates ==
    /\ pc = "dup_build"
    /\ fi > Len(json_files)
    /\ stdout' = stdout \o DuplicateLines(address_labels)
    /\ has_duplicated_address_labels' = (DuplicateLines(address_labels) # <<>>)
    /\ pc' = "dup_returned"
    /\ UNCHANGED <<exportVars, verifyVars>>
    /\ UNCHANGED <<inputVars, canonVars, linkVars, mainVars, address_labels, fi>>

\* A protocol file without an "addresses" key.
NoAddresses == JsonFile(Range(REQUIRED_FIELDS), Foo, <<DeFi_Lending>>, <<>>, <<>>)

DupFiles == {ValidRecord(m) : m \in AddressMaps(Labels, Addresses)} \cup {NoAddresses}

NoArgs == [protocol |-> <<>>, link |-> FALSE]

\* check_verified_contracts.py is not running.
NoVerifyArgs == [api_key |-> FALSE, files |-> <<>>, parallel |-> 1]

\* The locals of the checks before any of them has run.
ChecksNotStarted ==
    /\ fi = 1
    /\ li = 1
    /\ canonical_contract_addresses = {}
    /\ address_labels = <<>>
    /\ invalid = <<>>
    /\ has_included_canonical_contracts = FALSE
    /\ has_duplicated_address_labels = FALSE
    /\ has_invalid_links = FALSE
    /\ status_code = "unbound"
    /\ exit = "running"
    /\ stdout = <<>>
    /\ rows = <<>>
    /\ all_rows = <<>>
    /\ csv = <<>>
    /\ files = <<>>
    /\ future = <<>>
    /\ yielded = {}
    /\ results = <<>>
    /\ report = <<>>

\* check_duplicated_address_labels(base_dir, json_files) called on a directory
InitDup ==
    /\ isdir = TRUE
    /\ dir \in [ProtocolNames -> DupFiles]
    /\ listdir = Sorted(DOMAIN dir)
    /\ args = NoArgs
    /\ json_files = JsonFilesOf(listdir)
    /\ pc = "dup_build"
    /\ ChecksNotStarted
    /\ vargs = NoVerifyArgs

NextDup == IndexFile \/ ReportDuplicates

SpecDup == InitDup /\ [][NextDup]_vars

(***************************************************************************)
(* Properties of check_duplicated_address_labels                           *)
(***************************************************************************)
\* The (file, label, address) entries of the corpus in processing order:
\* json_files in order, each file's address map in its own order.
RECURSIVE CorpusItems(_)
CorpusItems(k) ==
    IF k = 0 THEN <<>>
    ELSE LET f == json_files[k]
             m == dir[f].addresses
         IN  CorpusItems(k - 1) \o [i \in DOMAIN m |-> <<f, m[i][1], m[i][2]>>]

Corpus == CorpusItems(Len(json_files))

\* The (file, label) occurrences of the address whose lower case is a, in order.
OccurrencesOf(a) ==
    LET hits == SelectSeq(Corpus, LAMBDA e : Lower(e[3]) = a)
    IN  [i \in DOMAIN hits |-> <<hits[i][1], hits[i][2]>>]

LabelsOf(a) == {OccurrencesOf(a)[i][2] : i \in DOMAIN OccurrencesOf(a)}

\* Position of the first corpus entry for a.
FirstSeen(a) == CHOOSE i \in DOMAIN Corpus :
                    /\ Lower(Corpus[i][3]) = a
                    /\ \A j \in 1..(i - 1) : Lower(Corpus[j][3]) # a

DuplicateReports == SelectSeq(stdout, LAMBDA line : line.msg = "duplicate")

ReportsFor(a) == SelectSeq(DuplicateReports, LAMBDA line : line.address = a)

CanonicalForms == {Lower(Corpus[i][3]) : i \in DOMAIN Corpus}
                      \cup {DuplicateReports[i].address : i \in DOMAIN DuplicateReports}

\* C1: when check_duplicated_address_labels returns, a lower-cased address has
\* been reported iff its occurrences in the corpus carry at least two distinct
\* labels; a reported address is reported exactly once, with all its
\* occurrences, and the return value says whether anything was reported.
C1_DuplicateIffDistinctLabels ==
    pc = "dup_returned" =>
        /\ \A a \in CanonicalForms :
              /\ Len(ReportsFor(a)) = (IF Cardinality(LabelsOf(a)) >= 2 THEN 1 ELSE 0)
              /\ \A i \in DOMAIN ReportsFor(a) :
                    /\ Range(ReportsFor(a)[i].labels) = Range(OccurrencesOf(a))
                    /\ Len(ReportsFor(a)[i].labels) = Len(OccurrencesOf(a))
        /\ has_duplicated_address_labels = (DuplicateReports # <<>>)

\* C1 witness: "0xAAAA..." and "0xaaaa..." under two labels in two files are
\* reported as one address.
C1_Witness ==
    /\ pc = "dup_returned"
    /\ Len(ReportsFor(Addr("a"))) = 1
    /\ \E i, j \in DOMAIN Corpus :
          /\ Corpus[i][3] = Addr("A") /\ Corpus[j][3] = Addr("a")
          /\ Corpus[i][1] # Corpus[j][1]
    /\ \E b \in CanonicalForms : ReportsFor(b) = <<>>

\* No lower-cased address occurs in two different files.
NoAddressSharedAcrossFiles ==
    \A i, j \in DOMAIN Corpus :
        Lower(Corpus[i][3]) = Lower(Corpus[j][3]) => Corpus[i][1] = Corpus[j][1]

\* No record lists one lower-cased address under two of its own labels.
NoAddressRepeatedInFile ==
    \A i, j \in DOMAIN Corpus :
        (Lower(Corpus[i][3]) = Lower(Corpus[j][3]) /\ Corpus[i][1] = Corpus[j][1])
            => i = j

\* C5 as stated: with no address shared across two files the check reports
\* nothing and returns False, even when a record lists one address under
\* several of its own labels.
C5_Original ==
    (pc = "dup_returned" /\ NoAddressSharedAcrossFiles)
        => (DuplicateReports = <<>> /\ ~has_duplicated_address_labels)

\* C5 amended: with no address shared across two files and no record listing
\* one address under two of its own labels, the check reports nothing and
\* returns False.
C5_NoSharedNoRepeated ==
    (pc = "dup_returned" /\ NoAddressSharedAcrossFiles /\ NoAddressRepeatedInFile)
        => (DuplicateReports = <<>> /\ ~has_duplicated_address_labels)

\* C5 witness: two files with addresses, none shared, nothing reported.
C5_Witness ==
    /\ pc = "dup_returned"
    /\ NoAddressSharedAcrossFiles /\ NoAddressRepeatedInFile
    /\ Len(json_files) >= 2
    /\ \A k \in DOMAIN json_files : Len(dir[json_files[k]].addresses) >= 1
    /\ DuplicateReports = <<>>

\* C8: the duplicate reports are in the order in which their addresses were
\* first seen in the corpus, and each report lists its occurrences in the order
\* they were encountered.
C8_ReportOrder ==
    pc = "dup_returned" =>
        /\ \A i, j \in DOMAIN DuplicateReports :
              i < j => FirstSeen(DuplicateReports[i].address)
                           < FirstSeen(DuplicateReports[j].address)
        /\ \A i \in DOMAIN DuplicateReports :
              DuplicateReports[i].labels = OccurrencesOf(DuplicateReports[i].address)

\* C8 witness: two addresses reported, the first-seen one ("0xbbbb...") first
\* although it sorts after the other.
C8_Witness ==
    /\ pc = "dup_returned"
    /\ Len(DuplicateReports) = 2
    /\ DuplicateReports[1].address = Addr("b")
    /\ DuplicateReports[2].address = Addr("a")

\* s is an initial part of t
IsPrefix(s, t) == Len(s) <= Len(t) /\ SubSeq(t, 1, Len(s)) = s

\* The entries of the files the build loop has gone through.
Processed == CorpusItems(fi - 1)

\* The (file, label) occurrences, in order, of a among the processed entries.
ProcessedOccurrencesOf(a) ==
    LET hits == SelectSeq(Processed, LAMBDA e : Lower(e[3]) = a)
    IN  [i \in DOMAIN hits |-> <<hits[i][1], hits[i][2]>>]

\* Position of the first processed entry for a.
FirstProcessed(a) == CHOOSE i \in DOMAIN Processed :
                        /\ Lower(Processed[i][3]) = a
                        /\ \A j \in 1..(i - 1) : Lower(Processed[j][3]) # a

\* Every entry of the index stays where it is and keeps its list as an
\* initial part of the new list.
IndexOnlyGrows ==
    \A i \in DOMAIN address_labels :
        /\ i \in DOMAIN address_labels'
        /\ address_labels'[i][1] = address_labels[i][1]
        /\ IsPrefix(address_labels[i][2], address_labels'[i][2])

\* The index holds, under each lower-cased address of the processed records,
\* one occurrence per (file, label, address) entry, in processing order, and
\* its keys are in first-seen order.
IndexHoldsProcessed ==
    /\ \A i \in DOMAIN address_labels :
          /\ \E k \in DOMAIN Processed : Lower(Processed[k][3]) = address_labels[i][1]
          /\ address_labels[i][2] = ProcessedOccurrencesOf(address_labels[i][1])
    /\ \A k \in DOMAIN Processed :
          \E i \in DOMAIN address_labels : address_labels[i][1] = Lower(Processed[k][3])
    /\ \A i, j \in DOMAIN address_labels :
          i < j => FirstProcessed(address_labels[i][1]) < FirstProcessed(address_labels[j][1])

\* C11: each step of check_duplicated_address_labels leaves every recorded
\* occurrence at its position (the index only grows by appends), and after it
\* the index holds exactly the occurrences of the processed records, keyed by
\* lower-cased address, in processing order.
C11_IndexAppendOnly == [][IndexOnlyGrows]_vars /\ []IndexHoldsProcessed

\* C11 witness: both files are indexed; an address first recorded from the
\* first file has a second occurrence from the second file, beside another key.
C11_Witness ==
    /\ pc = "dup_build"
    /\ fi > Len(json_files)
    /\ Len(address_labels) >= 2
    /\ \E i \in DOMAIN address_labels :
          /\ Len(address_labels[i][2]) >= 2
          /\ address_labels[i][2][1][1] = json_files[1]
          /\ address_labels[i][2][Len(address_labels[i][2])][1] = json_files[2]

(***************************************************************************)
(* check_included_canonical_contracts                                      *)
(***************************************************************************)
\* Mutant of CanonicalAddresses: the canonical addresses are kept as written.
CanonicalAddresses_AsWritten(data) == {data.addresses[i][2] : i \in DOMAIN data.addresses}

\* {x.lower() for x in canonical_contract_data['addresses'].values()}
CanonicalAddresses(data) == {Lower(data.addresses[i][2]) : i \in DOMAIN data.addresses}

\* The lines printed for one protocol file: one per entry whose lower-cased
\* address is canonical.
CanonicalLines(f, data, canonical) ==
    LET hits == SelectSeq(data.addresses, LAMBDA e : Lower(e[2]) \in canonical)
    IN  [i \in DOMAIN hits |->
            [msg |-> "canonical", file |-> f, label |-> hits[i][1],
             address |-> hits[i][2]]]

\* Load CANONICAL.jsonc and build the canonical set.
CanonLoad ==
    /\ pc = "canon_start"
    /\ IF /\ CANONICAL_JSONC \in DOMAIN dir
          /\ dir[CANONICAL_JSONC].parses
          /\ "addresses" \in dir[CANONICAL_JSONC].keys
       THEN /\ canonical_contract_addresses' = CanonicalAddresses(dir[CANONICAL_JSONC])
            /\ has_included_canonical_contracts' = FALSE
            /\ fi' = 1
            /\ pc' = "canon_scan"
       ELSE \* open or json5.load raises, or ['addresses'] raises KeyError
            /\ pc' = "canon_raised"
            /\ UNCHANGED <<canonVars, fi>>
    /\ UNCHANGED <<exportVars, verifyVars>>
    /\ UNCHANGED <<inputVars, dupVars, linkVars, mainVars, stdout>>

\* One turn of the loop over os.listdir(base_dir).
CanonVisit ==
    /\ pc = "canon_scan"
    /\ fi <= Len(listdir)
    /\ LET f == listdir[fi]
           protocol_data == dir[f]
       IN  IF f \in {CANONICAL_JSONC, README_MD}
           THEN /\ fi' = fi + 1
                /\ UNCHANGED <<pc, has_included_canonical_contracts, stdout>>
           ELSE IF protocol_data.parses /\ "addresses" \in protocol_data.keys
           THEN LET lines == CanonicalLines(f, protocol_data, canonical_contract_addresses)
                IN  /\ stdout' = stdout \o lines
                    /\ has_included_canonical_contracts' =
                           (has_included_canonical_contracts \/ lines # <<>>)
                    /\ fi' = fi + 1
                    /\ pc' = pc
           ELSE \* json5.load raises, or ['addresses'] raises KeyError
                /\ pc' = "canon_raised"
                /\ UNCHANGED <<fi, has_included_canonical_contracts, stdout>>
    /\ UNCHANGED <<exportVars, verifyVars>>
    /\ UNCHANGED <<inputVars, canonical_contract_addresses, dupVars, linkVars, mainVars>>

\* return has_included_canonical_contracts
CanonReturn ==
    /\ pc = "canon_scan"
    /\ fi > Len(listdir)
    /\ pc' = "canon_returned"
    /\ UNCHANGED <<exportVars, verifyVars>>
    /\ UNCHANGED <<inputVars, canonVars, dupVars, linkVars, mainVars, fi, stdout>>

\* s reversed
Reverse(s) == [i \in 1..Len(s) |-> s[Len(s) + 1 - i]]

\* The orders os.listdir may give the directory in.
ListingOrders(d) == {Sorted(DOMAIN d), Reverse(Sorted(DOMAIN d))}

\* README.md is not JSON.
Readme == Unparseable

\* The directory holding the given protocol files beside CANONICAL.jsonc and README.md.
Directory(protocols, canonical) ==
    [f \in DOMAIN protocols \cup {CANONICAL_JSONC, README_MD} |->
        IF f = CANONICAL_JSONC THEN canonical
        ELSE IF f = README_MD THEN Readme
        ELSE protocols[f]]

CanonicalFiles == {ValidRecord(m) : m \in AddressMaps({Vault}, Addresses)}

\* check_included_canonical_contracts(base_dir, json_files) called on a directory
InitCanon ==
    /\ isdir = TRUE
    /\ \E protocols \in [ProtocolNames -> DupFiles], canonical \in CanonicalFiles :
          dir = Directory(protocols, canonical)
    /\ listdir \in ListingOrders(dir)
    /\ args = NoArgs
    /\ json_files = JsonFilesOf(listdir)
    /\ pc = "canon_start"
    /\ ChecksNotStarted
    /\ vargs = NoVerifyArgs

NextCanon == CanonLoad \/ CanonVisit \/ CanonReturn

SpecCanon == InitCanon /\ [][NextCanon]_vars

(***************************************************************************)
(* Properties of check_included_canonical_contracts                        *)
(***************************************************************************)
CanonicalReports == SelectSeq(stdout, LAMBDA line : line.msg = "canonical")

\* The records the check is about: every directory entry but the canonical
\* file and the README.
ProtocolRecords == DOMAIN dir \ {CANONICAL_JSONC, README_MD}

\* The address x is in the canonical set, compared in lower case.
InCanonicalSet(x) ==
    \E i \in DOMAIN dir[CANONICAL_JSONC].addresses :
        Lower(dir[CANONICAL_JSONC].addresses[i][2]) = Lower(x)

\* C2: when check_included_canonical_contracts returns, each (label, address)
\* entry of each non-canonical, non-README record has one report naming the
\* record's file and label if its lower-cased address is in the lower-cased
\* canonical set, and none otherwise, whatever the label; nothing else is
\* reported, and the return value says whether anything was.
C2_CanonicalOverlapReported ==
    pc = "canon_returned" =>
        /\ \A f \in ProtocolRecords : \A i \in DOMAIN dir[f].addresses :
              LET e == dir[f].addresses[i]
                  mine == SelectSeq(CanonicalReports,
                                    LAMBDA line : /\ line.file = f
                                                  /\ line.label = e[1]
                                                  /\ line.address = e[2])
              IN  Len(mine) = (IF InCanonicalSet(e[2]) THEN 1 ELSE 0)
        /\ \A k \in DOMAIN CanonicalReports :
              /\ CanonicalReports[k].file \in ProtocolRecords
              /\ \E i \in DOMAIN dir[CanonicalReports[k].file].addresses :
                    dir[CanonicalReports[k].file].addresses[i]
                        = <<CanonicalReports[k].label, CanonicalReports[k].address>>
        /\ has_included_canonical_contracts = (CanonicalReports # <<>>)

\* C2 witness: a record's "0xaaaa..." is reported against the canonical
\* "0xAAAA...", under either label, while another record with an address is
\* not reported.
C2_Witness ==
    /\ pc = "canon_returned"
    /\ \E i \in DOMAIN dir[CANONICAL_JSONC].addresses :
          dir[CANONICAL_JSONC].addresses[i][2] = Addr("A")
    /\ \E k \in DOMAIN CanonicalReports :
          /\ CanonicalReports[k].address = Addr("a")
          /\ CanonicalReports[k].label = Treasury
    /\ \E f \in ProtocolRecords :
          /\ dir[f].addresses # <<>>
          /\ \A k \in DOMAIN CanonicalReports : CanonicalReports[k].file # f

(***************************************************************************)
(* check_invalid_links                                                     *)
(***************************************************************************)
HTTPS == <<"h", "t", "t", "p", "s", ":", "/", "/">>
HTTP == <<"h", "t", "t", "p", ":", "/", "/">>

\* "", "ftp://x", "https://x"
LinkEmpty == <<>>
LinkFtp == <<"f", "t", "p", ":", "/", "/", "x">>
LinkHttps == HTTPS \o <<"x">>

\* What urlopen(req) does: returns a response with a status (200, or another
\* status it does not raise on, such as 204), or raises (timeout, connection
\* failure, HTTP 401/429/5xx).
Responses == {"200", "204", "error"}

\* One link of one file: lines 112-128.  A printed line carries the label of
\* the link it is about.
CheckLink ==
    /\ pc = "links"
    /\ fi <= Len(json_files)
    /\ LET f == json_files[fi]
           protocol_data == dir[f]
       IN  /\ protocol_data.parses
           /\ "links" \in protocol_data.keys
           /\ li <= Len(protocol_data.links)
           /\ LET link_label == protocol_data.links[li][1]
                  link == protocol_data.links[li][2]
              IN  IF link = <<>>
                  THEN /\ li' = li + 1
                       /\ UNCHANGED <<pc, has_invalid_links, status_code, stdout>>
                  ELSE IF ~StartsWith(link, HTTPS) /\ ~StartsWith(link, HTTP)
                  THEN /\ stdout' = Append(stdout, [msg |-> "invalid link", file |-> f,
                                                    label |-> link_label, link |-> link])
                       /\ has_invalid_links' = TRUE
                       /\ li' = li + 1
                       /\ UNCHANGED <<pc, status_code>>
                  ELSE \E response \in Responses :
                       IF response = "error"
                       THEN \* except Exception: print, flag; then line 126 reads status_code
                            LET printed == Append(stdout,
                                    [msg |-> "bad link error", file |-> f,
                                     label |-> link_label, link |-> link])
                            IN  /\ has_invalid_links' = TRUE
                                /\ status_code' = status_code
                                /\ IF status_code = "unbound"
                                   THEN \* UnboundLocalError
                                        /\ stdout' = printed
                                        /\ pc' = "links_raised"
                                        /\ li' = li
                                   ELSE /\ stdout' =
                                              IF status_code # "200"
                                              THEN Append(printed,
                                                     [msg |-> "bad link status", file |-> f,
                                                      label |-> link_label, link |-> link,
                                                      status |-> status_code])
                                              ELSE printed
                                        /\ pc' = pc
                                        /\ li' = li + 1
                       ELSE /\ status_code' = response
                            /\ stdout' =
                                  IF response # "200"
                                  THEN Append(stdout,
                                         [msg |-> "bad link status", file |-> f,
                                          label |-> link_label, link |-> link,
                                          status |-> response])
                                  ELSE stdout
                            /\ has_invalid_links' = (has_invalid_links \/ response # "200")
                            /\ pc' = pc
                            /\ li' = li + 1
    /\ UNCHANGED <<exportVars, verifyVars>>
    /\ UNCHANGED <<inputVars, canonVars, dupVars, mainVars, fi>>

\* The file's links are done (or it cannot be read): next file.
LinksNextFile ==
    /\ pc = "links"
    /\ fi <= Len(json_files)
    /\ LET protocol_data == dir[json_files[fi]]
       IN  IF protocol_data.parses /\ "links" \in protocol_data.keys
           THEN /\ li > Len(protocol_data.links)
                /\ fi' = fi + 1
                /\ li' = 1
                /\ pc' = pc
           ELSE \* json5.load raises, or ['links'] raises KeyError
                /\ pc' = "links_raised"
                /\ UNCHANGED <<fi, li>>
    /\ UNCHANGED <<exportVars, verifyVars>>
    /\ UNCHANGED <<inputVars, canonVars, dupVars, mainVars, has_invalid_links,
                   status_code, stdout>>

\* return has_invalid_links
LinksReturn ==
    /\ pc = "links"
    /\ fi > Len(json_files)
    /\ pc' = "links_returned"
    /\ UNCHANGED <<exportVars, verifyVars>>
    /\ UNCHANGED <<inputVars, canonVars, dupVars, linkVars, mainVars, fi, stdout>>

\* The dicts {"website": l1, "docs": l2} of at most two links.
LinkMaps ==
    LET labels == <<"website", "docs">>
        links == {LinkEmpty, LinkFtp, LinkHttps}
    IN  UNION {{[i \in 1..n |-> <<labels[i], l[i]>>] : l \in [1..n -> links]} :
               n \in 0..2}

LinkFiles == {JsonFile(AllKeys, Foo, <<DeFi_Lending>>, <<>>, l) : l \in LinkMaps}

\* check_invalid_links(base_dir, json_files) called on a directory
InitLinks ==
    /\ isdir = TRUE
    /\ dir \in [ProtocolNames -> LinkFiles]
    /\ listdir = Sorted(DOMAIN dir)
    /\ args = NoArgs
    /\ json_files = JsonFilesOf(listdir)
    /\ pc = "links"
    /\ ChecksNotStarted
    /\ vargs = NoVerifyArgs

NextLinks == CheckLink \/ LinksNextFile \/ LinksReturn

SpecLinks == InitLinks /\ [][NextLinks]_vars

(***************************************************************************)
(* Properties of check_invalid_links                                       *)
(***************************************************************************)
\* The lines printed about the link under the given label of the given file.
LinesAbout(f, label) ==
    SelectSeq(stdout, LAMBDA line : /\ line.msg \in {"bad link error", "bad link status"}
                                    /\ line.file = f
                                    /\ line.label = label)

\* C6: a failing probe never makes check_invalid_links raise, and a link whose
\* probe failed is reported once.
C6_ProbeFailuresNonFatal ==
    /\ pc # "links_raised"
    /\ \A k \in DOMAIN stdout :
          stdout[k].msg = "bad link error"
              => Len(LinesAbout(stdout[k].file, stdout[k].label)) = 1

(***************************************************************************)
(* main of validate_protocol.py                                            *)
(***************************************************************************)
\* os.path.splitext(f)[0]
Root(f) ==
    LET dots == {i \in DOMAIN f : f[i] = "."}
        last == CHOOSE i \in dots : \A j \in dots : j <= i
    IN  IF dots = {} \/ last = 1 THEN f ELSE SubSeq(f, 1, last - 1)

\* The line main prints after is_valid_file(file).
SchemaLine(f) ==
    [msg |-> IF is_valid_file(dir[f]) THEN "valid" ELSE "invalid", file |-> f]

\* Lines 140-169: the directory check, then the single-protocol branch
\* (147-159) or the start of the whole-corpus branch (163-169).
MainStart ==
    /\ pc = "main_start"
    /\ IF ~isdir
       THEN /\ exit' = "exit1"
            /\ pc' = "done"
            /\ UNCHANGED <<json_files, invalid, stdout>>
       ELSE IF args.protocol # <<>>
       THEN LET found == SelectSeq(JsonFilesOf(listdir),
                             LAMBDA f : Lower(Root(f)) = Lower(args.protocol))
            IN  /\ json_files' = found
                /\ invalid' = invalid
                /\ IF found = <<>>
                   THEN /\ exit' = "exit1"
                        /\ pc' = "done"
                        /\ stdout' = stdout
                   ELSE /\ stdout' = Append(stdout, SchemaLine(found[1]))
                        /\ exit' = exit
                        /\ pc' = "canon_start"
       ELSE /\ json_files' = JsonFilesOf(listdir)
            /\ invalid' = <<>>
            /\ stdout' = stdout
            /\ IF JsonFilesOf(listdir) = <<>>
               THEN exit' = "exit0" /\ pc' = "done"
               ELSE exit' = exit /\ pc' = "schema_loop"
    /\ fi' = 1
    /\ UNCHANGED <<exportVars, verifyVars>>
    /\ UNCHANGED <<inputVars, canonVars, dupVars, linkVars>>

\* Mutant of SchemaCheck: the loop ends at the first invalid file.
SchemaCheck_StopAtFirst ==
    /\ pc = "schema_loop"
    /\ fi <= Len(json_files)
    /\ LET filename == json_files[fi]
       IN  /\ stdout' = Append(stdout, SchemaLine(filename))
           /\ IF is_valid_file(dir[filename])
              THEN invalid' = invalid /\ fi' = fi + 1
              ELSE invalid' = Append(invalid, filename) /\ fi' = Len(json_files) + 1
    /\ UNCHANGED <<exportVars, verifyVars>>
    /\ UNCHANGED <<inputVars, canonVars, dupVars, linkVars, json_files, exit, pc>>

\* One turn of the loop of lines 170-177.
SchemaCheck ==
    /\ pc = "schema_loop"
    /\ fi <= Len(json_files)
    /\ LET filename == json_files[fi]
       IN  /\ stdout' = Append(stdout, SchemaLine(filename))
           /\ invalid' = IF is_valid_file(dir[filename]) THEN invalid
                         ELSE Append(invalid, filename)
    /\ fi' = fi + 1
    /\ UNCHANGED <<exportVars, verifyVars>>
    /\ UNCHANGED <<inputVars, canonVars, dupVars, linkVars, json_files, exit, pc>>

\* Lines 179-180: raise if any file was invalid, else go on to line 182.
SchemaDone ==
    /\ pc = "schema_loop"
    /\ fi > Len(json_files)
    /\ IF Len(invalid) > 0
       THEN exit' = "exc_invalid" /\ pc' = "done"
       ELSE exit' = exit /\ pc' = "canon_start"
    /\ UNCHANGED <<exportVars, verifyVars>>
    /\ UNCHANGED <<inputVars, canonVars, dupVars, linkVars, json_files, invalid,
                   fi, stdout>>

\* Line 183: call check_duplicated_address_labels.
MainCallDup ==
    /\ pc = "canon_returned"
    /\ pc' = "dup_build"
    /\ fi' = 1
    /\ UNCHANGED <<exportVars, verifyVars>>
    /\ UNCHANGED <<inputVars, canonVars, dupVars, linkVars, mainVars, stdout>>

\* Lines 184-185: call check_invalid_links when --link is given.
MainCallLinks ==
    /\ pc = "dup_returned"
    /\ args.link
    /\ pc' = "links"
    /\ fi' = 1
    /\ li' = 1
    /\ has_invalid_links' = FALSE
    /\ status_code' = "unbound"
    /\ UNCHANGED <<exportVars, verifyVars>>
    /\ UNCHANGED <<inputVars, canonVars, dupVars, mainVars, stdout>>

\* Lines 187-191: raise on the results of the two checks, else return.
MainFinish ==
    /\ \/ pc = "dup_returned" /\ ~args.link
       \/ pc = "links_returned"
    /\ exit' = IF has_included_canonical_contracts THEN "exc_canonical"
               ELSE IF has_duplicated_address_labels THEN "exc_duplicate"
               ELSE "exit0"
    /\ pc' = "done"
    /\ UNCHANGED <<exportVars, verifyVars>>
    /\ UNCHANGED <<inputVars, canonVars, dupVars, linkVars, json_files, invalid,
                   fi, stdout>>

\* An exception raised inside a check is caught nowhere: it ends main.
MainUncaught ==
    /\ pc \in {"canon_raised", "dup_raised", "links_raised"}
    /\ exit' = "uncaught"
    /\ pc' = "done"
    /\ UNCHANGED <<exportVars, verifyVars>>
    /\ UNCHANGED <<inputVars, canonVars, dupVars, linkVars, json_files, invalid,
                   fi, stdout>>

\* main ended with exit status zero.
ExitZero == exit = "exit0"

\* A JSON file that lacks the "description" field.
MissingDescription == JsonFile(AllKeys \ {"description"}, Foo, <<DeFi_Lending>>,
                               <<<<Treasury, Addr("a")>>>>, <<>>)

\* A JSON file with a category outside the allowed list.
UnknownCategory == JsonFile(AllKeys, Foo, <<DeFi_Lending, <<"N", "F", "T">>>>,
                            <<<<Treasury, Addr("a")>>>>, <<>>)

\* A JSON file with an address that is too short.
MalformedAddress == JsonFile(AllKeys, Foo, <<DeFi_Lending>>,
                             <<<<Vault, <<"0", "x", "A">>>>>>, <<>>)

\* A valid record with one link.
WithLink == JsonFile(AllKeys, Foo, <<DeFi_Lending>>, <<>>,
                     <<<<"website", LinkHttps>>>>)

MainFiles ==
    {ValidRecord(m) : m \in {a \in AddressMaps(Labels, Addresses) : Len(a) <= 1}}
        \cup {Unparseable, MissingDescription, UnknownCategory, MalformedAddress,
              NoAddresses, WithLink}

MainCanonicalFiles == {ValidRecord(<<<<Vault, Addr("A")>>>>),
                       ValidRecord(<<<<Vault, Addr("b")>>>>)}

\* A directory without any JSON file.
NoJsonDirectory == [f \in {README_MD} |-> Readme]

\* --protocol A, --protocol z, or none; --link or not
MainArgs == [protocol : {<<>>, <<"A">>, <<"z">>}, link : BOOLEAN]

Init ==
    /\ \/ /\ isdir = TRUE
          /\ \E protocols \in [ProtocolNames -> MainFiles],
                canonical \in MainCanonicalFiles :
                dir = Directory(protocols, canonical)
          /\ listdir \in ListingOrders(dir)
          /\ args \in MainArgs
       \/ /\ isdir \in BOOLEAN
          /\ dir = NoJsonDirectory
          /\ listdir = Sorted(DOMAIN dir)
          /\ args = NoArgs
    /\ json_files = <<>>
    /\ pc = "main_start"
    /\ ChecksNotStarted
    /\ vargs = NoVerifyArgs

Next ==
    \/ MainStart
    \/ SchemaCheck
    \/ SchemaDone
    \/ CanonLoad
    \/ CanonVisit
    \/ CanonReturn
    \/ MainCallDup
    \/ IndexFile
    \/ ReportDuplicates
    \/ MainCallLinks
    \/ CheckLink
    \/ LinksNextFile
    \/ LinksReturn
    \/ MainFinish
    \/ MainUncaught

Spec == Init /\ [][Next]_vars

(***************************************************************************)
(* Properties of main                                                      *)
(***************************************************************************)
SchemaReports == SelectSeq(stdout, LAMBDA line : line.msg \in {"valid", "invalid"})

SchemaReportsFor(f) == SelectSeq(SchemaReports, LAMBDA line : line.file = f)

\* A violation of some kind was found and printed.
ViolationFound ==
    \/ \E k \in DOMAIN SchemaReports : SchemaReports[k].msg = "invalid"
    \/ CanonicalReports # <<>>
    \/ DuplicateReports # <<>>

\* main ran to its own end: it returned, or raised one of its own exceptions
\* (not sys.exit(1) for a missing directory or protocol, not an exception
\* escaping from a check).
RanToEnd == exit \in {"exit0", "exc_invalid", "exc_canonical", "exc_duplicate"}

\* C3: a run of main, in either mode, ends with exit status zero iff no
\* violation of any kind was found: non-zero whenever a schema check failed or
\* a corpus check found a violation, zero otherwise.
C3_ExitZeroIffClean == RanToEnd => (ExitZero <=> ~ViolationFound)

\* C4: when a whole-corpus run of main returns or fails, every canonical
\* overlap and every duplicate label present in the corpus has been reported,
\* whatever schema failures there are.
C4_AllViolationsReported ==
    (RanToEnd /\ args.protocol = <<>>) =>
        /\ \A f \in ProtocolRecords : \A i \in DOMAIN dir[f].addresses :
              InCanonicalSet(dir[f].addresses[i][2])
                  => \E k \in DOMAIN CanonicalReports :
                        /\ CanonicalReports[k].file = f
                        /\ CanonicalReports[k].label = dir[f].addresses[i][1]
        /\ \A a \in CanonicalForms :
              Cardinality(LabelsOf(a)) >= 2 => ReportsFor(a) # <<>>

\* The whole-corpus run has left its schema loop.
SchemaLoopDone ==
    isdir /\ args.protocol = <<>> /\ pc \notin {"main_start", "schema_loop"}
        /\ json_files # <<>>

\* C7: in a whole-corpus run every file of the sorted list is schema-checked
\* exactly once, in order, whatever the earlier files were (unparseable or
\* schema-invalid), and the files reported invalid are exactly the files whose
\* own check failed.
C7_EveryFileCheckedOnce ==
    /\ (isdir /\ args.protocol = <<>> /\ pc = "schema_loop") =>
          /\ Len(SchemaReports) = fi - 1
          /\ \A k \in 1..(fi - 1) : SchemaReports[k].file = json_files[k]
    /\ SchemaLoopDone =>
          /\ json_files = JsonFilesOf(listdir)
          /\ \A k \in DOMAIN json_files : Len(SchemaReportsFor(json_files[k])) = 1
          /\ Len(SchemaReports) = Len(json_files)
          /\ \A k \in DOMAIN json_files :
                LET f == json_files[k]
                    failed == ~dir[f].parses \/ ~is_valid_file(dir[f])
                IN  /\ (SchemaReportsFor(f)[1].msg = "invalid") <=> failed
                    /\ (\E n \in DOMAIN invalid : invalid[n] = f) <=> failed
          /\ Len(invalid) <= Len(json_files)

\* C7 witness: an unparseable file comes first, then a schema-invalid one, then
\* nothing more to check; both, and only they, are reported invalid.
C7_Witness ==
    /\ SchemaLoopDone
    /\ \E k, m \in DOMAIN json_files :
          /\ k < m
          /\ ~dir[json_files[k]].parses
          /\ dir[json_files[m]].parses /\ ~is_valid_file(dir[json_files[m]])
          /\ invalid = <<json_files[k], json_files[m]>>
    /\ exit = "exc_invalid"

\* Every file of the whole-corpus run passed is_valid_file, and main went on
\* to the corpus checks.
AllFilesPassed ==
    /\ SchemaLoopDone
    /\ invalid = <<>>
    /\ \A k \in DOMAIN json_files : is_valid_file(dir[json_files[k]])

\* C12: when every file passed the schema check, neither
\* check_included_canonical_contracts nor check_duplicated_address_labels
\* raises.
C12_CorpusChecksComplete ==
    AllFilesPassed => pc \notin {"canon_raised", "dup_raised"}

(***************************************************************************)
(* ProtocolsTable.py                                                       *)
(***************************************************************************)
SEP == <<":", ":">>

\* The places where sep occurs in s.
Occurrences(s, sep) ==
    {i \in 1..(Len(s) - Len(sep) + 1) : SubSeq(s, i, i + Len(sep) - 1) = sep}

\* s.split(sep)
RECURSIVE Split(_, _)
Split(s, sep) ==
    IF Occurrences(s, sep) = {} THEN <<s>>
    ELSE LET i == CHOOSE k \in Occurrences(s, sep) :
                      \A j \in Occurrences(s, sep) : k <= j
         IN  <<SubSeq(s, 1, i - 1)>> \o Split(SubSeq(s, i + Len(sep), Len(s)), sep)

\* sep.join(list)
RECURSIVE Join(_, _)
Join(sep, list) ==
    IF list = <<>> THEN <<>>
    ELSE IF Len(list) = 1 THEN list[1]
    ELSE list[1] \o sep \o Join(sep, Tail(list))

\* Python's < on tuples of str
RECURSIVE TupleLess(_, _)
TupleLess(a, b) ==
    IF a = <<>> \/ b = <<>> THEN a = <<>> /\ b # <<>>
    ELSE IF Head(a) = Head(b) THEN TupleLess(Tail(a), Tail(b))
    ELSE StrLess(Head(a), Head(b))

\* sorted() on <<key, element>> pairs: stable insertion of each pair after the
\* pairs whose key is not greater.
RECURSIVE SortPairs(_)
SortPairs(pairs) ==
    IF pairs = <<>> THEN <<>>
    ELSE LET front == SortPairs(SubSeq(pairs, 1, Len(pairs) - 1))
             x == pairs[Len(pairs)]
             n == Cardinality({i \in DOMAIN front : ~TupleLess(x[1], front[i][1])})
         IN  SubSeq(front, 1, n) \o <<x>> \o SubSeq(front, n + 1, Len(front))

\* sorted(seq, key=...), given each element's key
SortedByKeys(seq, keys) ==
    LET sorted == SortPairs([i \in DOMAIN seq |-> <<keys[i], seq[i]>>])
    IN  [i \in DOMAIN sorted |-> sorted[i][2]]

\* Mutant of RowKey: the name comes first in the sort key.
RowKey_NameFirst(row) == <<row.name, row.ctype, row.csubtype, row.contract>>

\* key=lambda x: (x['ctype'], x['csubtype'], x['name'], x['contract'])
RowKey(row) == <<row.ctype, row.csubtype, row.name, row.contract>>

\* sorted(rows, key=lambda x: (x['ctype'], x['csubtype'], x['name'], x['contract']))
SortRows(rs) == SortedByKeys(rs, [i \in DOMAIN rs |-> RowKey(rs[i])])

\* sorted(addresses.items()): by the (label, address) pairs themselves
SortItems(items) == SortedByKeys(items, items)

\* Mutant of parse_protocol_file: the format check is len(parts) < 2.
parse_protocol_file_AtLeastTwo(data) ==
    LET categories == Get(data, "categories", data.categories, <<>>)
    IN  IF categories = <<>> THEN <<>>
        ELSE IF Len(Split(categories[1], SEP)) < 2 THEN <<>>
        ELSE LET items == SortItems(Get(data, "addresses", data.addresses, <<>>))
             IN  [i \in DOMAIN items |->
                    [name |-> Get(data, "name", data.name, <<>>),
                     ctype |-> Split(categories[1], SEP)[1],
                     csubtype |-> Split(categories[1], SEP)[2],
                     contract |-> items[i][1],
                     address |-> Lower(items[i][2]),
                     all_categories |-> Join(<<";">>, categories)]]

\* parse_protocol_file: the rows of one file; none when json5.load raises
\* (caught at line 67).
parse_protocol_file(data) ==
    LET name == Get(data, "name", data.name, <<>>)
        categories == Get(data, "categories", data.categories, <<>>)
    IN  IF ~data.parses THEN <<>>
        ELSE IF categories = <<>> THEN <<>>
        ELSE LET first_category == categories[1]
                 parts == Split(first_category, SEP)
             IN  IF Len(parts) # 2 THEN <<>>
                 ELSE LET all_categories == Join(<<";">>, categories)
                          addresses == Get(data, "addresses", data.addresses, <<>>)
                          items == SortItems(addresses)
                      IN  [i \in DOMAIN items |->
                             [name |-> name,
                              ctype |-> parts[1],
                              csubtype |-> parts[2],
                              contract |-> items[i][1],
                              address |-> Lower(items[i][2]),
                              all_categories |-> all_categories]]

\* One turn of main's loop over protocol_files: parse, extend all_rows.
ExportParse ==
    /\ pc = "export_loop"
    /\ fi <= Len(json_files)
    /\ rows' = parse_protocol_file(dir[json_files[fi]])
    /\ all_rows' = all_rows \o parse_protocol_file(dir[json_files[fi]])
    /\ fi' = fi + 1
    /\ UNCHANGED verifyVars
    /\ UNCHANGED <<inputVars, canonVars, dupVars, linkVars, mainVars, csv, pc, stdout>>

\* write_csv(all_rows, out)
ExportWrite ==
    /\ pc = "export_loop"
    /\ fi > Len(json_files)
    /\ csv' = IF all_rows = <<>> THEN csv ELSE SortRows(all_rows)
    /\ pc' = "export_done"
    /\ UNCHANGED verifyVars
    /\ UNCHANGED <<inputVars, canonVars, dupVars, linkVars, mainVars, rows, all_rows,
                   fi, stdout>>

Bar == <<"B", "a", "r">>
App_Yield == <<"A", "p", "p", ":", ":", "Y", "i", "e", "l", "d">>
\* Strings that are not "X::Y": no separator, two separators.
NFT == <<"N", "F", "T">>
A_B_C == <<"A", ":", ":", "B", ":", ":", "C">>

ExportCategories == {<<DeFi_Lending, DeFi_Yield>>, <<DeFi_Yield>>, <<App_Yield>>,
                     <<DeFi_Lending, NFT>>, <<NFT, DeFi_Lending>>, <<A_B_C>>, <<>>}

ExportAddressMaps == {<<>>, <<<<Vault, Addr("A")>>>>,
                      <<<<Vault, Addr("A")>>, <<Treasury, Addr("b")>>>>}

ExportFiles == {JsonFile(AllKeys, n, c, a, <<>>) :
                   n \in {Foo, Bar}, c \in ExportCategories, a \in ExportAddressMaps}
                   \cup {Unparseable}

\* ProtocolsTable.main on a directory of protocol files
InitExport ==
    /\ isdir = TRUE
    /\ dir \in [ProtocolNames -> ExportFiles]
    /\ listdir = Sorted(DOMAIN dir)
    /\ args = NoArgs
    /\ json_files = JsonFilesOf(listdir)
    /\ pc = "export_loop"
    /\ ChecksNotStarted
    /\ vargs = NoVerifyArgs

NextExport == ExportParse \/ ExportWrite

SpecExport == InitExport /\ [][NextExport]_vars

(***************************************************************************)
(* Properties of ProtocolsTable.py                                         *)
(***************************************************************************)
\* s contains "::"
HasSeparator(s) == \E i \in 1..(Len(s) - 1) : s[i] = ":" /\ s[i + 1] = ":"

\* cat is X::Y, with no further "::" in X or Y
IsTypeSubtype(cat, x, y) ==
    cat = x \o <<":", ":">> \o y /\ ~HasSeparator(x) /\ ~HasSeparator(y)

\* cat is not of the form X::Y with exactly one separator
Malformed(cat) ==
    ~\E p \in 0..Len(cat) : \E q \in p..Len(cat) :
        IsTypeSubtype(cat, SubSeq(cat, 1, p), SubSeq(cat, q + 1, Len(cat)))

\* row is the row of entry i of the address map of file f
IsRowOf(row, f, i) ==
    /\ row.name = dir[f].name
    /\ IsTypeSubtype(dir[f].categories[1], row.ctype, row.csubtype)
    /\ row.contract = dir[f].addresses[i][1]
    /\ row.address = Lower(dir[f].addresses[i][2])
    /\ row.all_categories = Join(<<";">>, dir[f].categories)

\* The entries of the corpus that give the same row as entry i of file f.
SameRowEntries(f, i) ==
    {e \in UNION {{<<json_files[k], j>> : j \in DOMAIN dir[json_files[k]].addresses} :
                  k \in DOMAIN json_files} :
        /\ dir[e[1]].name = dir[f].name
        /\ dir[e[1]].categories = dir[f].categories
        /\ dir[e[1]].addresses[e[2]][1] = dir[f].addresses[i][1]
        /\ Lower(dir[e[1]].addresses[e[2]][2]) = Lower(dir[f].addresses[i][2])}

\* a's sort key (ctype, csubtype, name, contract) is less than b's
SortsBefore(a, b) ==
    \/ StrLess(a.ctype, b.ctype)
    \/ a.ctype = b.ctype /\ StrLess(a.csubtype, b.csubtype)
    \/ a.ctype = b.ctype /\ a.csubtype = b.csubtype /\ StrLess(a.name, b.name)
    \/ /\ a.ctype = b.ctype /\ a.csubtype = b.csubtype /\ a.name = b.name
       /\ StrLess(a.contract, b.contract)

ValidFiles == {json_files[k] : k \in {n \in DOMAIN json_files : is_valid_file(dir[json_files[n]])}}

\* C9: the written CSV holds, for every address entry of every valid record,
\* exactly one row with the record's name, ctype::csubtype equal to its first
\* category, the entry's label, the lower-cased address and the ";"-join of
\* all categories; and the rows are in (ctype, csubtype, name, contract) order.
C9_ExportRows ==
    pc = "export_done" =>
        /\ \A f \in ValidFiles : \A i \in DOMAIN dir[f].addresses :
              Len(SelectSeq(csv, LAMBDA row : IsRowOf(row, f, i)))
                  = Cardinality(SameRowEntries(f, i))
        /\ (ValidFiles = Range(json_files)) =>
              Len(csv) = Cardinality(UNION {{<<f, i>> : i \in DOMAIN dir[f].addresses} :
                                            f \in ValidFiles})
        /\ \A i, j \in DOMAIN csv : i < j => ~SortsBefore(csv[j], csv[i])

\* C9 witness: "Foo" with ["DeFi::Lending", "DeFi::Yield"] and "0xAAAA..." gives
\* the row DeFi / Lending / "DeFi::Lending;DeFi::Yield" with "0xaaaa...", written
\* after the "App" rows of a later file.
C9_Witness ==
    /\ pc = "export_done"
    /\ dir[json_files[1]].name = Foo
    /\ dir[json_files[1]].categories = <<DeFi_Lending, DeFi_Yield>>
    /\ Len(dir[json_files[1]].addresses) = 1
    /\ Len(csv) >= 2
    /\ csv[1].ctype = <<"A", "p", "p">>
    /\ \E k \in DOMAIN csv :
          csv[k] = [name |-> Foo,
                    ctype |-> <<"D", "e", "F", "i">>,
                    csubtype |-> <<"L", "e", "n", "d", "i", "n", "g">>,
                    contract |-> Vault,
                    address |-> Addr("a"),
                    all_categories |->
                        <<"D", "e", "F", "i", ":", ":", "L", "e", "n", "d", "i", "n", "g",
                          ";", "D", "e", "F", "i", ":", ":", "Y", "i", "e", "l", "d">>]

\* The file parse_protocol_file was last called on.
LastParsed == dir[json_files[fi - 1]]

\* C10 as stated: a record with a category that is not "X::Y", at any position,
\* produces no export rows.
C10_Original ==
    (pc = "export_loop" /\ fi > 1) =>
        ((\E k \in DOMAIN LastParsed.categories : Malformed(LastParsed.categories[k]))
            => rows = <<>>)

\* C10 amended: a record whose first category is not "X::Y" produces no export
\* rows; and is_valid_file rejects a record with a category, at any position,
\* that is not in the allowed list.
C10_FirstCategoryFormat ==
    /\ (pc = "export_loop" /\ fi > 1) =>
          ((LastParsed.categories # <<>> /\ Malformed(LastParsed.categories[1]))
              => rows = <<>>)
    /\ \A k \in DOMAIN json_files :
          (\E n \in DOMAIN dir[json_files[k]].categories :
                dir[json_files[k]].categories[n] \notin CATEGORIES)
              => ~is_valid_file(dir[json_files[k]])

\* C10 witness: a record with addresses whose first category has two
\* separators gave no rows.
C10_Witness ==
    /\ pc = "export_loop" /\ fi > 1
    /\ LastParsed.categories = <<A_B_C>>
    /\ LastParsed.addresses # <<>>
    /\ rows = <<>>

(***************************************************************************)
(* check_verified_contracts.py                                             *)
(***************************************************************************)
DEFAULT_WORKERS == 5

\* What requests.get and response.json() can give for one address: an HTTP
\* status, a body that is not a dict, a dict with code and result, or an
\* exception.
ApiResponses == {"401", "429", "500", "not a dict", "code 0 with result",
                 "code 0 without result", "code 1", "Timeout", "RequestException",
                 "JSONDecodeError"}

\* verify_contract_on_blockvision, given what the request gives
verify_contract_on_blockvision(response) ==
    CASE response = "401" -> <<FALSE, "Authentication failed">>
      [] response = "429" -> <<FALSE, "Rate limit exceeded">>
      [] response = "500" -> <<FALSE, "HTTP 500">>
      [] response = "not a dict" -> <<FALSE, "Invalid response format">>
      [] response = "code 0 with result" -> <<TRUE, "Verified">>
      [] response = "code 0 without result" -> <<FALSE, "Not verified">>
      [] response = "code 1" -> <<FALSE, "API error (code: 1)">>
      [] response = "Timeout" -> <<FALSE, "Request timeout">>
      [] response = "RequestException" -> <<FALSE, "Request failed">>
      [] response = "JSONDecodeError" -> <<FALSE, "Invalid JSON response">>

\* process_file, given the file's content and what the request gives for each
\* of its addresses
process_file(file_path, data, responses) ==
    IF ~data.parses
    THEN [file |-> file_path, status |-> "error",
          message |-> "JSON parsing error", results |-> <<>>]
    ELSE LET protocol_name == Get(data, "name", data.name, Root(file_path))
             addresses == Get(data, "addresses", data.addresses, <<>>)
         IN  IF addresses = <<>>
             THEN [file |-> file_path, protocol |-> protocol_name,
                   status |-> "skipped", message |-> "No addresses found",
                   results |-> <<>>]
             ELSE LET verified == [i \in DOMAIN addresses |->
                                      verify_contract_on_blockvision(responses[i])]
                      file_results ==
                          [i \in DOMAIN addresses |->
                              <<addresses[i][1],
                                [address |-> addresses[i][2],
                                 valid |-> verified[i][1],
                                 message |-> verified[i][2]]>>]
                  IN  [file |-> file_path, protocol |-> protocol_name,
                       status |-> "success",
                       all_valid |-> \A i \in DOMAIN file_results :
                                         file_results[i][2].valid,
                       results |-> file_results]

\* get_all_protocol_files(): the sorted *.json and *.jsonc of the directory
get_all_protocol_files == JsonFilesOf(listdir)

\* Lines 275-307: the api key, the file list, the executor and the submission
\* of one process_file task per file.
VerifyStart ==
    /\ pc = "verify_start"
    /\ LET chosen == IF vargs.files # <<>> THEN vargs.files ELSE get_all_protocol_files
       IN  IF \/ ~vargs.api_key
              \/ \E i \in DOMAIN vargs.files : vargs.files[i] \notin DOMAIN dir
              \/ chosen = <<>>
           THEN \* sys.exit(1)
                /\ exit' = "exit1"
                /\ pc' = "done"
                /\ UNCHANGED <<files, future>>
           ELSE IF vargs.parallel <= 0
           THEN \* ThreadPoolExecutor raises ValueError
                /\ exit' = "uncaught"
                /\ pc' = "done"
                /\ files' = chosen
                /\ future' = future
           ELSE /\ files' = chosen
                /\ future' = [i \in DOMAIN chosen |-> [state |-> "queued"]]
                /\ pc' = "verify_loop"
                /\ exit' = exit
    /\ UNCHANGED <<inputVars, canonVars, dupVars, linkVars, exportVars, json_files,
                   invalid, vargs, yielded, results, report, fi, stdout>>

\* The tasks a worker thread is running.
Running == {i \in DOMAIN future : future[i].state = "running"}

\* A free worker of the pool takes the next task of the queue.
WorkerStart(i) ==
    /\ pc = "verify_loop"
    /\ future[i].state = "queued"
    /\ \A j \in 1..(i - 1) : future[j].state # "queued"
    /\ Cardinality(Running) < vargs.parallel
    /\ future' = [future EXCEPT ![i] = [state |-> "running"]]
    /\ UNCHANGED <<inputVars, canonVars, dupVars, linkVars, mainVars, exportVars,
                   vargs, files, yielded, results, report, pc, fi, stdout>>

\* The requests the model lets a probe end in.
Probes == {"code 0 with result", "401", "Timeout"}

\* A worker returns from process_file: the future is done and holds the result.
WorkerFinish(i) ==
    /\ pc = "verify_loop"
    /\ future[i].state = "running"
    /\ \E responses \in [DOMAIN dir[files[i]].addresses -> Probes] :
          future' = [future EXCEPT ![i] =
                        [state |-> "done",
                         result |-> process_file(files[i], dir[files[i]], responses)]]
    /\ UNCHANGED <<inputVars, canonVars, dupVars, linkVars, mainVars, exportVars,
                   vargs, files, yielded, results, report, pc, fi, stdout>>

\* result.get("protocol", Path(result["file"]).name)
ProtocolOf(result) ==
    IF "protocol" \in DOMAIN result THEN result.protocol ELSE result.file

\* One turn of the as_completed loop (lines 309-318): a finished future not
\* yet given is given, its result appended and its progress line printed.
Collect(i) ==
    /\ pc = "verify_loop"
    /\ future[i].state = "done"
    /\ i \notin yielded
    /\ yielded' = yielded \cup {i}
    /\ results' = Append(results, future[i].result)
    /\ stdout' = Append(stdout, [msg |-> "progress",
                                 protocol |-> ProtocolOf(future[i].result),
                                 ok |-> future[i].result.status = "success"])
    /\ UNCHANGED <<inputVars, canonVars, dupVars, linkVars, mainVars, exportVars,
                   vargs, files, future, report, pc, fi>>

\* Mutant of SortResults: the results stay in completion order.
SortResults_CompletionOrder(rs) == rs

\* results.sort(key=lambda x: x["file"])
SortResults(rs) == SortedByKeys(rs, [i \in DOMAIN rs |-> <<rs[i].file>>])

\* sum(len(r.get("results", {})) for r in results), and the count of valid ones
RECURSIVE CountAddresses(_, _)
CountAddresses(rs, validOnly) ==
    IF rs = <<>> THEN 0
    ELSE Cardinality({k \in DOMAIN Head(rs).results :
                         ~validOnly \/ Head(rs).results[k][2].valid})
            + CountAddresses(Tail(rs), validOnly)

\* print_results(results): the results in the order given and the summary
print_results(rs) ==
    [results |-> rs,
     total_files |-> Len(rs),
     total_addresses |-> CountAddresses(rs, FALSE),
     valid_addresses |-> CountAddresses(rs, TRUE)]

\* Lines 319-322: as_completed is exhausted, the executor is shut down, the
\* results are sorted and printed.
VerifyReport ==
    /\ pc = "verify_loop"
    /\ yielded = DOMAIN future
    /\ results' = SortResults(results)
    /\ report' = print_results(SortResults(results))
    /\ exit' = "exit0"
    /\ pc' = "verify_done"
    /\ UNCHANGED <<inputVars, canonVars, dupVars, linkVars, exportVars, json_files,
                   invalid, vargs, files, future, yielded, fi, stdout>>

\* Files of the directory: one that does not parse, one without addresses,
\* one with an address.
VerifyFiles == {Unparseable, NoAddresses, ValidRecord(<<<<Vault, Addr("A")>>>>)}

\* A path that does not exist.
MissingFile == NamePool[Len(NamePool)]

\* The file arguments: none (all protocol files), the protocol files in
\* reverse order, or a file that does not exist.
VerifyFileArgs == {<<>>, Reverse(Sorted(ProtocolNames)), <<MissingFile>>}

VerifyArgs == [api_key : BOOLEAN, files : VerifyFileArgs,
               parallel : {0, 1, DEFAULT_WORKERS}]

\* check_verified_contracts.main on the mainnet directory
InitVerify ==
    /\ \/ /\ isdir = TRUE
          /\ \E protocols \in [ProtocolNames -> VerifyFiles] :
                dir = Directory(protocols, ValidRecord(<<<<Vault, Addr("b")>>>>))
       \/ /\ isdir \in BOOLEAN
          /\ dir = NoJsonDirectory
    /\ listdir = Sorted(DOMAIN dir)
    /\ args = NoArgs
    /\ json_files = <<>>
    /\ pc = "verify_start"
    /\ ChecksNotStarted
    /\ vargs \in VerifyArgs

NextVerify ==
    \/ VerifyStart
    \/ \E i \in DOMAIN future : WorkerStart(i)
    \/ \E i \in DOMAIN future : WorkerFinish(i)
    \/ \E i \in DOMAIN future : Collect(i)
    \/ VerifyReport

SpecVerify == InitVerify /\ [][NextVerify]_vars

(***************************************************************************)
(* Properties of check_verified_contracts.py                               *)
(***************************************************************************)
\* The places of the list rs that hold a result for file f.
ResultsFor(rs, f) == {k \in DOMAIN rs : rs[k].file = f}

\* C13: whatever order the workers finish in, the results collected so far
\* hold one result per finished-and-collected task; the report is produced
\* only after every worker has completed, holds exactly one result per
\* submitted file (an "error" result for a file that cannot be processed), each
\* being what that file's task returned, and is in file path order.
C13_OneResultPerFileSorted ==
    /\ pc = "verify_loop" =>
          /\ Len(results) = Cardinality(yielded)
          /\ \A i \in DOMAIN future :
                Cardinality(ResultsFor(results, files[i])) = (IF i \in yielded THEN 1 ELSE 0)
          /\ \A i \in yielded :
                /\ future[i].state = "done"
                /\ \A k \in ResultsFor(results, files[i]) : results[k] = future[i].result
    /\ report # <<>> => pc = "verify_done"
    /\ pc = "verify_done" =>
          /\ \A i \in DOMAIN future : future[i].state = "done"
          /\ report.results = results
          /\ Len(results) = Len(files)
          /\ \A i \in DOMAIN files :
                /\ Cardinality(ResultsFor(results, files[i])) = 1
                /\ \A k \in ResultsFor(results, files[i]) :
                      /\ results[k] = future[i].result
                      /\ ~dir[files[i]].parses => results[k].status = "error"
          /\ \A k, l \in DOMAIN results :
                k < l => StrLess(results[k].file, results[l].file)

\* C13 witness: the file that sorts last cannot be parsed and its task was the
\* first to be collected; the report holds its "error" result in last place,
\* after the results of the other files.
C13_Witness ==
    /\ pc = "verify_done"
    /\ Len(files) >= 2
    /\ results[Len(results)].status = "error"
    /\ stdout[1].protocol = results[Len(results)].file
    /\ results[1].status = "success"
    /\ Len(stdout) = Len(files)

============================================================================
